---- MODULE Spec2Model ----
(***************************************************************************)
(* A model of the product video builder: swiggy_video_maker.py (the        *)
(* renderer: main, build_slide_clip, render_text_panel and their helpers)  *)
(* and streamlit_app.py (the front end that runs the renderer as a         *)
(* subprocess).                                                            *)
(*                                                                         *)
(* Four specifications share the module:                                   *)
(*   Spec        one run of main(): logo, row loop, "no slides" check,     *)
(*               timeline, audio, export, and the front end's report;      *)
(*   SpecLayout  build_slide_clip's geometry and the two position          *)
(*               functions evaluated at the times frames are asked for;    *)
(*   SpecText    render_text_panel: title wrap and bullet loop;            *)
(*   SpecLogo    build_slide_clip's handling of the logo: paste_logo on    *)
(*               the snapshot, and the logo layer of the returned clip.    *)
(*                                                                         *)
(* Text is a tuple of one-character strings, so that lower(), strip(),     *)
(* split() and the substring test are computed and not assumed.  Times     *)
(* are whole ticks.  Real-valued products (W * ratio, the easing curve,    *)
(* the fit scale) are exact rationals numerator/denominator, and int()     *)
(* is truncation toward zero of that rational.                             *)
(***************************************************************************)
EXTENDS Integers, Sequences, FiniteSets

VARIABLES
    \* ---- main() ----
    cfg,        \* the loaded configuration (the fields main reads)
    rows,       \* the data frame: the spreadsheet's rows in order
    pc,         \* where main() is
    i,          \* index of the next row of the iteration
    slides,     \* the list `slides`
    logo_rgba,  \* the loaded logo, or NoLogo
    video,      \* the assembled timeline
    music,      \* duration of the file at music_path once read, 0 for none
    audio,      \* the audio attached to the video, or NoAudio
    stdout,     \* what main printed
    exitCode,   \* the process's exit status (NotExited while it runs)
    outFile,    \* the file written by write_videofile
    ui,         \* the front end: rendering, failed, success
    \* ---- build_slide_clip geometry and motion ----
    lpc,        \* where build_slide_clip is
    lcfg,       \* frame_width, frame_height, left_panel_ratio, inset, min side
    panel_w,    \* the text panel's width
    im,         \* the product image's size <<w, h>>
    fit,        \* avail_w, avail_h, new_size, rx, ry
    t,          \* the time of the frame last asked for, in tenths of a second
    panel_xy,   \* panel_pos(t)
    prod_xy,    \* prod_pos(t)
    \* ---- render_text_panel ----
    tpc,        \* where render_text_panel is
    tcfg,       \* the fields of cfg that render_text_panel reads
    title,      \* the title after apply_title_case
    words,      \* wrap_text: the words still to place
    cur,        \* wrap_text: the current line
    lines,      \* wrap_text: the lines flushed so far
    bullets,    \* the bullet list main() passes
    bi,         \* index of the next bullet
    drawn,      \* the bullet lines drawn: arrow position, text, advance
    y,          \* the pen's y
    \* ---- the logo in build_slide_clip ----
    gpc,        \* where build_slide_clip is with the logo
    gcfg,       \* frame_width, logo_margin_px, logo_position
    logo_size,  \* the loaded logo's size <<w, h>>, <<0, 0>> for None
    pasted,     \* paste_logo: the size and place of the logo on the snapshot
    layer,      \* the size of the logo layer handed to the compositor
    lt,         \* the time of the frame last asked for, in tenths of a second
    logo_xy     \* the logo layer's position at lt

mainVars == <<cfg, rows, pc, i, slides, logo_rgba, video, music, audio, stdout, exitCode, outFile, ui>>
layVars  == <<lpc, lcfg, panel_w, im, fit, t, panel_xy, prod_xy>>
textVars == <<tpc, tcfg, title, words, cur, lines, bullets, bi, drawn, y>>
logoVars == <<gpc, gcfg, logo_size, pasted, layer, lt, logo_xy>>
vars     == <<mainVars, layVars, textVars, logoVars>>

(***************************************************************************)
(* Bounds of the model.                                                    *)
(***************************************************************************)
MaxRows  == 3   \* rows in the spreadsheet
MaxCap   == 2   \* largest max_slides
MaxPer   == 2   \* largest duration_per_slide, in ticks
MaxAudio == 3   \* longest music track, in ticks
MaxW     == 12  \* widest frame
MaxH     == 7   \* tallest frame
MaxDen   == 3   \* largest denominator of left_panel_ratio
MaxInset == 1   \* largest safe_area_inset_px
MaxSide  == 3   \* largest upscale_to_min_side_px
MaxImg   == 4   \* largest side of an opened image
MaxT     == 8   \* latest frame time, in tenths of a second
MaxTitle == 5   \* longest title, in characters
MaxPad   == 1   \* largest edge_padding_px
MaxK     == 2   \* largest text_max_words_per_bullet
MaxLogoW == 6   \* widest logo
MaxLogoH == 2   \* tallest logo
MaxMargin == 1  \* largest logo_margin_px

(***************************************************************************)
(* Text helpers: str.lower, str.strip, the `in` substring test.            *)
(***************************************************************************)
UpperChars == <<"A","B","C","D","E","F","G","H","I","J","K","L","M",
                "N","O","P","Q","R","S","T","U","V","W","X","Y","Z">>
LowerChars == <<"a","b","c","d","e","f","g","h","i","j","k","l","m",
                "n","o","p","q","r","s","t","u","v","w","x","y","z">>

LowerChar(c) ==
    IF \E k \in 1..Len(UpperChars) : UpperChars[k] = c
    THEN LowerChars[CHOOSE k \in 1..Len(UpperChars) : UpperChars[k] = c]
    ELSE c

Lower(s) == [k \in 1..Len(s) |-> LowerChar(s[k])]

IsSpace(c) == c = " "

RECURSIVE LStrip(_)
LStrip(s) == IF s # <<>> /\ IsSpace(Head(s)) THEN LStrip(Tail(s)) ELSE s

RECURSIVE RStrip(_)
RStrip(s) ==
    IF s # <<>> /\ IsSpace(s[Len(s)]) THEN RStrip(SubSeq(s, 1, Len(s) - 1)) ELSE s

Strip(s) == RStrip(LStrip(s))

\* k in s, for two strings
Contains(k, s) ==
    \E a \in 1..(Len(s) - Len(k) + 1) : SubSeq(s, a, a + Len(k) - 1) = k

(***************************************************************************)
(* Spreadsheet cells.  pandas gives an empty cell as NaN, and str(NaN) is  *)
(* the text "nan"; row.get's default "" is used only for a missing column. *)
(***************************************************************************)
NaN       == [kind |-> "nan", v |-> <<>>]
Txt(s)    == [kind |-> "str", v |-> s]
Str(cell) == IF cell.kind = "nan" THEN <<"n","a","n">> ELSE cell.v

SkipWords == { <<"1">>, <<"t","r","u","e">>, <<"y","e","s">>, <<"y">> }

\* line 328
SkipFlagged(row) == Lower(Strip(Str(row.skip))) \in SkipWords
\* line 330
ImageFile(row) == Strip(Str(row.image))
\* lines 334-335: the filename is lowered, the keywords are used as configured
LooksLikeBarcode(image_file, keywords) ==
    \E k \in 1..Len(keywords) : Contains(keywords[k], Lower(image_file))
\* lines 352-355
OverlayTxt(row) ==
    LET cap_txt == Strip(Str(row.cap))
        dim_txt == Strip(Str(row.dim))
    IN  cap_txt \o dim_txt

RowKinds ==
    { [skip |-> Txt(<<"n","o">>), image |-> Txt(<<"a",".","p","n","g">>),
       dim |-> Txt(<<"9","c","m">>), cap |-> Txt(<<>>)],
      [skip |-> Txt(<<"T","R","U","E">>), image |-> Txt(<<"a",".","p","n","g">>),
       dim |-> Txt(<<>>), cap |-> Txt(<<>>)],
      [skip |-> NaN, image |-> Txt(<<"b","a","r","c","o","d","e","_","1",".","p","n","g">>),
       dim |-> Txt(<<>>), cap |-> Txt(<<>>)],
      [skip |-> NaN, image |-> Txt(<<"Q","R","_","7",".","p","n","g">>),
       dim |-> Txt(<<>>), cap |-> Txt(<<>>)],
      [skip |-> NaN, image |-> Txt(<<" ">>),
       dim |-> Txt(<<>>), cap |-> Txt(<<>>)],
      [skip |-> NaN, image |-> NaN,
       dim |-> Txt(<<>>), cap |-> Txt(<<>>)] }

RowSeqs == UNION { [1..n -> RowKinds] : n \in 0..MaxRows }

KeywordConfigs ==
    { << <<"b","a","r","c","o","d","e">>, <<"q","r">>, <<"c","o","d","e","1","2","8">> >>,
      << <<"B","a","r","c","o","d","e">>, <<"Q","R">> >> }

(***************************************************************************)
(* Values standing for Python's None and for the states of the process.    *)
(***************************************************************************)
NoLogo    == "none"
NotExited == -1
NoAudio   == [src |-> 0, loops |-> 0, total |-> 0, duration |-> 0]
NoVideo   == [clips |-> <<>>, duration |-> 0]
NoFile    == [written |-> FALSE, duration |-> 0, audio |-> NoAudio]
NoLogoCfg == [W |-> 0, margin |-> 0, position |-> "top_right"]
NoPaste   == [w |-> 0, h |-> 0, x |-> 0, y |-> 0]
NoTextCfg == [W |-> 0, rn |-> 0, rd |-> 1, pad |-> 0, k |-> 0, gap |-> 0, title_fs |-> 0, body_fs |-> 0]
NoLayoutCfg == [W |-> 0, H |-> 0, rn |-> 0, rd |-> 1, inset |-> 0, min_side |-> 0]
NoFit == [avail_w |-> 0, avail_h |-> 0, new_w |-> 0, new_h |-> 0, rx |-> 0, ry |-> 0]

MsgNoLogo   == "[info] No logo found"
MsgBarcode  == "[skip] looks like barcode image"
MsgNoSlides == "No slides to render. Check your Excel and image paths."
MsgTrace    == "Traceback"
MsgExport   == "[export] Writing"

(***************************************************************************)
(* build_slide_clip as main() sees it: the layers handed to the            *)
(* compositor, and the clip it returns.  The compositor reads every        *)
(* layer's attributes (size, end, mask), so a None layer raises.           *)
(***************************************************************************)
\* lines 204-210: the opened image, or the 800x800 gray placeholder
ProductImage(opens) == IF opens THEN "photo" ELSE "placeholder"

\* lines 282-290: the layer list; the last entry is None without a logo
SlideLayers(logo) ==
    <<"canvas", "panel", "product", IF logo # NoLogo THEN "logo" ELSE "None">>

\* line 282: CompositeVideoClip over the layers
CompositeRaises(layers) == \E k \in 1..Len(layers) : layers[k] = "None"

\* lines 190-292
BuildSlideClip(rowIndex, opens, logo, per, ribbon) ==
    [row |-> rowIndex, image |-> ProductImage(opens), layers |-> SlideLayers(logo),
     ribbon |-> ribbon, start |-> 0, duration |-> per, end |-> per]

(***************************************************************************)
(* The timeline.  CompositeVideoClip plays each clip from its own start    *)
(* to its own end and draws the clips playing at t in list order, the      *)
(* last on top; every slide clip has an opaque full-frame canvas.          *)
(***************************************************************************)
\* line 381
CompositeTimeline(clips, per) == [clips |-> clips, duration |-> per * Len(clips)]

PlayingClips(v, time) ==
    { k \in 1..Len(v.clips) : v.clips[k].start <= time /\ time < v.clips[k].end }

\* the slide visible at `time`: the topmost playing clip, 0 for the bare background
Shown(v, time) ==
    IF PlayingClips(v, time) = {} THEN 0
    ELSE CHOOSE k \in PlayingClips(v, time) : \A j \in PlayingClips(v, time) : j <= k

(***************************************************************************)
(* Audio: lines 384-392.                                                   *)
(***************************************************************************)
\* math.ceil(v / a)
CeilDiv(v, a) == (v + a - 1) \div a

\* the repetition count with the quotient rounded down
LoopsFloor(a, v) == IF a < v THEN v \div a ELSE 1

\* lines 387-390: the number of whole-track repetitions
Loops(a, v) == IF a < v THEN CeilDiv(v, a) ELSE 1

\* lines 385-391: loop, then subclip(0, v)
MixedAudio(a, v) ==
    [src |-> a, loops |-> Loops(a, v), total |-> Loops(a, v) * a, duration |-> v]

(***************************************************************************)
(* main(): one action per step.                                            *)
(***************************************************************************)
\* lines 313-318
LoadLogo ==
    /\ pc = "logo"
    /\ \E found \in BOOLEAN :
        /\ logo_rgba' = IF found THEN "logo" ELSE NoLogo
        /\ stdout' = IF found THEN stdout ELSE Append(stdout, MsgNoLogo)
    /\ pc' = "rows"
    /\ UNCHANGED <<music, cfg, rows, i, slides, video, audio, exitCode, outFile, ui>>
    /\ UNCHANGED <<layVars, textVars, logoVars>>

\* lines 325-327: the iteration ends, by exhaustion or by the max_slides break
LoopEnds ==
    /\ pc = "rows"
    /\ (i > Len(rows) \/ Len(slides) >= cfg.max_slides)
    /\ pc' = "check"
    /\ UNCHANGED <<music, cfg, rows, i, slides, logo_rgba, video, audio, stdout, exitCode, outFile, ui>>
    /\ UNCHANGED <<layVars, textVars, logoVars>>

\* lines 328-337: the three `continue`s
SkipRow ==
    /\ pc = "rows"
    /\ i <= Len(rows) /\ Len(slides) < cfg.max_slides
    /\ \/ /\ SkipFlagged(rows[i])
          /\ stdout' = stdout
       \/ /\ ~SkipFlagged(rows[i])
          /\ ImageFile(rows[i]) = <<>>
          /\ stdout' = stdout
       \/ /\ ~SkipFlagged(rows[i])
          /\ ImageFile(rows[i]) # <<>>
          /\ LooksLikeBarcode(ImageFile(rows[i]), cfg.keywords)
          /\ stdout' = Append(stdout, MsgBarcode)
    /\ i' = i + 1
    /\ UNCHANGED <<music, cfg, rows, pc, slides, logo_rgba, video, audio, exitCode, outFile, ui>>
    /\ UNCHANGED <<layVars, textVars, logoVars>>

RowRendered(row, keywords) ==
    /\ ~SkipFlagged(row)
    /\ ImageFile(row) # <<>>
    /\ ~LooksLikeBarcode(ImageFile(row), keywords)

\* lines 338-375: the slide is built and appended, or build_slide_clip raises
RenderRow ==
    /\ pc = "rows"
    /\ i <= Len(rows) /\ Len(slides) < cfg.max_slides
    /\ RowRendered(rows[i], cfg.keywords)
    /\ \E opens \in BOOLEAN :
        LET clip == BuildSlideClip(i, opens, logo_rgba, cfg.per, OverlayTxt(rows[i]) # <<>>)
        IN  \/ /\ ~CompositeRaises(clip.layers)
               /\ slides' = Append(slides, clip)
               /\ i' = i + 1
               /\ UNCHANGED <<pc, stdout, exitCode>>
            \/ /\ CompositeRaises(clip.layers)
               /\ pc' = "crashed"
               /\ stdout' = Append(stdout, MsgTrace)
               /\ exitCode' = 1
               /\ UNCHANGED <<slides, i>>
    /\ UNCHANGED <<music, cfg, rows, logo_rgba, video, audio, outFile, ui>>
    /\ UNCHANGED <<layVars, textVars, logoVars>>

\* the check without its exit: an empty list goes on to the timeline
NoSlidesFallsThrough ==
    /\ pc = "check"
    /\ slides = <<>>
    /\ video' = CompositeTimeline(slides, cfg.per)
    /\ pc' = "audio"
    /\ UNCHANGED <<music, cfg, rows, i, slides, logo_rgba, audio, stdout, exitCode, outFile, ui>>
    /\ UNCHANGED <<layVars, textVars, logoVars>>

\* lines 377-379
NoSlidesExit ==
    /\ pc = "check"
    /\ slides = <<>>
    /\ stdout' = Append(stdout, MsgNoSlides)
    /\ exitCode' = 1
    /\ pc' = "exited"
    /\ UNCHANGED <<music, cfg, rows, i, slides, logo_rgba, video, audio, outFile, ui>>
    /\ UNCHANGED <<layVars, textVars, logoVars>>

\* line 381
Assemble ==
    /\ pc = "check"
    /\ slides # <<>>
    /\ video' = CompositeTimeline(slides, cfg.per)
    /\ pc' = "audio"
    /\ UNCHANGED <<music, cfg, rows, i, slides, logo_rgba, audio, stdout, exitCode, outFile, ui>>
    /\ UNCHANGED <<layVars, textVars, logoVars>>

\* lines 384-392: no music file, or a track of duration a
MixAudio ==
    /\ pc = "audio"
    /\ \/ /\ music' = 0
          /\ audio' = NoAudio
       \/ \E a \in 1..MaxAudio :
            /\ music' = a
            /\ audio' = MixedAudio(a, video.duration)
    /\ pc' = "export"
    /\ UNCHANGED <<cfg, rows, i, slides, logo_rgba, video, stdout, exitCode, outFile, ui>>
    /\ UNCHANGED <<layVars, textVars, logoVars>>

\* lines 395-412
Export ==
    /\ pc = "export"
    /\ stdout' = Append(stdout, MsgExport)
    /\ outFile' = [written |-> TRUE, duration |-> video.duration, audio |-> audio]
    /\ exitCode' = 0
    /\ pc' = "done"
    /\ UNCHANGED <<music, cfg, rows, i, slides, logo_rgba, video, audio, ui>>
    /\ UNCHANGED <<layVars, textVars, logoVars>>

\* streamlit_app.py lines 128-135: the front end reads the return code
UiReport ==
    /\ ui = "rendering"
    /\ exitCode # NotExited
    /\ ui' = IF exitCode # 0 THEN "failed" ELSE "success"
    /\ UNCHANGED <<music, cfg, rows, pc, i, slides, logo_rgba, video, audio, stdout, exitCode, outFile>>
    /\ UNCHANGED <<layVars, textVars, logoVars>>

MainInit ==
    /\ cfg \in [max_slides : 1..MaxCap, per : 1..MaxPer, keywords : KeywordConfigs]
    /\ rows \in RowSeqs
    /\ pc = "logo"
    /\ i = 1
    /\ slides = <<>>
    /\ logo_rgba = NoLogo
    /\ video = NoVideo
    /\ music = 0
    /\ audio = NoAudio
    /\ stdout = <<>>
    /\ exitCode = NotExited
    /\ outFile = NoFile
    /\ ui = "rendering"

MainIdle ==
    /\ cfg = [max_slides |-> 0, per |-> 1, keywords |-> <<>>]
    /\ rows = <<>>
    /\ pc = "off"
    /\ i = 1
    /\ slides = <<>>
    /\ logo_rgba = NoLogo
    /\ video = NoVideo
    /\ music = 0
    /\ audio = NoAudio
    /\ stdout = <<>>
    /\ exitCode = NotExited
    /\ outFile = NoFile
    /\ ui = "off"

LayIdle ==
    /\ lpc = "off"
    /\ lcfg = NoLayoutCfg
    /\ panel_w = 0
    /\ im = <<0, 0>>
    /\ fit = NoFit
    /\ t = 0
    /\ panel_xy = <<0, 0>>
    /\ prod_xy = <<0, 0>>

TextIdle ==
    /\ tpc = "off"
    /\ tcfg = NoTextCfg
    /\ title = <<>>
    /\ words = <<>>
    /\ cur = <<>>
    /\ lines = <<>>
    /\ bullets = <<>>
    /\ bi = 1
    /\ drawn = <<>>
    /\ y = 0

LogoIdle ==
    /\ gpc = "off"
    /\ gcfg = NoLogoCfg
    /\ logo_size = <<0, 0>>
    /\ pasted = NoPaste
    /\ layer = <<0, 0>>
    /\ lt = 0
    /\ logo_xy = <<0, 0>>

Init == MainInit /\ LayIdle /\ TextIdle /\ LogoIdle

Next ==
    \/ LoadLogo
    \/ LoopEnds
    \/ SkipRow
    \/ RenderRow
    \/ NoSlidesExit
    \/ Assemble
    \/ MixAudio
    \/ Export
    \/ UiReport

Spec == Init /\ [][Next]_vars

(***************************************************************************)
(* build_slide_clip: geometry and motion.                                  *)
(***************************************************************************)
\* int(n / d) for d > 0: truncation toward zero
Trunc(n, d) == IF n >= 0 THEN n \div d ELSE -((-n) \div d)

Min(a, b) == IF a <= b THEN a ELSE b

\* round(n / d) for n >= 0, d > 0, halves to the even neighbour
Round(n, d) ==
    LET q == n \div d
        r == n % d
    IN  IF 2 * r > d \/ (2 * r = d /\ q % 2 = 1) THEN q + 1 ELSE q

\* the panel width with the product rounded to the nearest integer
PanelWidthRounded(W, rn, rd) == Round(W * rn, rd)

\* lines 98 and 193: int(W * left_ratio), left_ratio = rn / rd
PanelWidth(W, rn, rd) == Trunc(W * rn, rd)

\* line 208
PlaceholderSide == 800

\* lines 87-93
UpscaleMinSide(size, min_side) ==
    LET m == Min(size[1], size[2])
    IN  IF m >= min_side THEN size
        ELSE <<Trunc(size[1] * min_side, m), Trunc(size[2] * min_side, m)>>

\* lines 229-230
AvailW(W, pw, inset) == W - pw - inset * 2
AvailH(H, inset) == H - inset * 2

\* lines 231-233: scale = min(avail_w / iw, avail_h / ih), new_size = int(side * scale)
FitSize(size, aw, ah) ==
    IF aw * size[2] <= ah * size[1]
    THEN <<Trunc(size[1] * aw, size[1]), Trunc(size[2] * aw, size[1])>>
    ELSE <<Trunc(size[1] * ah, size[2]), Trunc(size[2] * ah, size[2])>>

\* the resting x without the inset
RestXNoInset(pw, aw, new_w, inset) == pw + (aw - new_w) \div 2

\* line 242
RestX(pw, aw, new_w, inset) == pw + (aw - new_w) \div 2 + inset
\* line 243
RestY(H, new_h) == (H - new_h) \div 2

\* line 264: d = 0.6 s, in tenths of a second
EaseD == 6

Cube(x) == x * x * x

\* the curve without its clamp at t >= d
EaseUnclamped(time) == <<Cube(time - EaseD) + Cube(EaseD), Cube(EaseD)>>

\* lines 264-267: ease_out_cubic(t) as <<numerator, denominator>>;
\* p = t/d - 1, p*p*p + 1 = ((t - d)^3 + d^3) / d^3
ease_out_cubic(time) ==
    IF time >= EaseD THEN <<1, 1>>
    ELSE <<Cube(time - EaseD) + Cube(EaseD), Cube(EaseD)>>

\* lines 269-272
panel_pos(time, pw) ==
    LET e == ease_out_cubic(time)
    IN  <<Trunc(-pw * e[2] + e[1] * pw, e[2]), 0>>

\* lines 274-279
prod_pos(time, W, rx, ry) ==
    LET e == ease_out_cubic(time)
    IN  <<Trunc(W * e[2] + (rx - W) * e[1], e[2]), ry>>

Ratios == { <<n, d>> \in (1..MaxDen) \X (2..MaxDen) : n < d }

LayInit ==
    /\ lpc = "enter"
    /\ lcfg \in [W : (MaxW - 3)..MaxW, H : (MaxH - 1)..MaxH,
                 rn : 1..MaxDen, rd : 2..MaxDen,
                 inset : 0..MaxInset, min_side : 1..MaxSide]
    /\ <<lcfg.rn, lcfg.rd>> \in Ratios
    /\ panel_w = 0
    /\ im = <<0, 0>>
    /\ fit = NoFit
    /\ t = 0
    /\ panel_xy = <<0, 0>>
    /\ prod_xy = <<0, 0>>

\* lines 191-201
Enter ==
    /\ lpc = "enter"
    /\ panel_w' = PanelWidth(lcfg.W, lcfg.rn, lcfg.rd)
    /\ lpc' = "open"
    /\ UNCHANGED <<lcfg, im, fit, t, panel_xy, prod_xy>>
    /\ UNCHANGED <<mainVars, textVars, logoVars>>

\* lines 204-210: the image opens with some size, or the placeholder is made
OpenImage ==
    /\ lpc = "open"
    /\ \/ \E w \in 1..MaxImg, h \in 1..MaxImg : im' = <<w, h>>
       \/ im' = <<PlaceholderSide, PlaceholderSide>>
    /\ lpc' = "upscale"
    /\ UNCHANGED <<lcfg, panel_w, fit, t, panel_xy, prod_xy>>
    /\ UNCHANGED <<mainVars, textVars, logoVars>>

\* line 226
Upscale ==
    /\ lpc = "upscale"
    /\ im' = UpscaleMinSide(im, lcfg.min_side)
    /\ lpc' = "fit"
    /\ UNCHANGED <<lcfg, panel_w, fit, t, panel_xy, prod_xy>>
    /\ UNCHANGED <<mainVars, textVars, logoVars>>

\* lines 228-244: resize wants a positive size, and raises otherwise
Fit ==
    /\ lpc = "fit"
    /\ LET aw == AvailW(lcfg.W, panel_w, lcfg.inset)
           ah == AvailH(lcfg.H, lcfg.inset)
           ns == FitSize(im, aw, ah)
       IN  \/ /\ ns[1] > 0 /\ ns[2] > 0
              /\ fit' = [avail_w |-> aw, avail_h |-> ah, new_w |-> ns[1], new_h |-> ns[2],
                         rx |-> RestX(panel_w, aw, ns[1], lcfg.inset),
                         ry |-> RestY(lcfg.H, ns[2])]
              /\ lpc' = "built"
           \/ /\ ~(ns[1] > 0 /\ ns[2] > 0)
              /\ fit' = [NoFit EXCEPT !.avail_w = aw, !.avail_h = ah]
              /\ lpc' = "raised"
    /\ UNCHANGED <<lcfg, panel_w, im, t, panel_xy, prod_xy>>
    /\ UNCHANGED <<mainVars, textVars, logoVars>>

\* lines 269-285: the compositor asks both position functions for a frame time
Frame ==
    /\ lpc \in {"built", "playing"}
    /\ \E time \in 0..MaxT :
        /\ t' = time
        /\ panel_xy' = panel_pos(time, panel_w)
        /\ prod_xy' = prod_pos(time, lcfg.W, fit.rx, fit.ry)
    /\ lpc' = "playing"
    /\ UNCHANGED <<lcfg, panel_w, im, fit>>
    /\ UNCHANGED <<mainVars, textVars, logoVars>>

LayNext ==
    \/ Enter
    \/ OpenImage
    \/ Upscale
    \/ Fit
    \/ Frame

LayoutInit == MainIdle /\ LayInit /\ TextIdle /\ LogoIdle

SpecLayout == LayoutInit /\ [][LayNext]_vars

(***************************************************************************)
(* render_text_panel.  A glyph is one unit wide, so a text's rendered      *)
(* width is its length; a non-empty text is as tall as its font size and   *)
(* the empty text has height 0.                                            *)
(***************************************************************************)
\* str.split(): the maximal runs of non-space characters
RECURSIVE SplitFrom(_, _, _)
SplitFrom(s, tok, acc) ==
    IF s = <<>> THEN (IF tok = <<>> THEN acc ELSE Append(acc, tok))
    ELSE IF IsSpace(Head(s))
         THEN SplitFrom(Tail(s), <<>>, IF tok = <<>> THEN acc ELSE Append(acc, tok))
         ELSE SplitFrom(Tail(s), Append(tok, Head(s)), acc)

Split(s) == SplitFrom(s, <<>>, <<>>)

\* " ".join(toks)
RECURSIVE Join(_)
Join(toks) ==
    IF toks = <<>> THEN <<>>
    ELSE IF Len(toks) = 1 THEN toks[1]
    ELSE toks[1] \o <<" ">> \o Join(Tail(toks))

\* toks[:n] for n >= 0
Take(toks, n) == SubSeq(toks, 1, Min(n, Len(toks)))

\* lines 66-68
clamp_words(s, max_words) == Join(Take(Split(s), max_words))

\* draw.textsize(txt): <<width, height>> at font size fs
TextSize(txt, fs) == <<Len(txt), IF txt = <<>> THEN 0 ELSE fs>>

Max(a, b) == IF a >= b THEN a ELSE b

\* line 125: max_w - pad*2, max_w being the panel_w - 2*pad of line 135
WrapLimit(max_w, pad) == max_w - pad * 2

\* line 135: the max_w passed to wrap_text
WrapMaxW(pw, pad) == pw - 2 * pad

\* lines 341-345: the non-empty stripped cells of the bullet columns
RECURSIVE BulletsFromCells(_)
BulletsFromCells(cells) ==
    IF cells = <<>> THEN <<>>
    ELSE LET val == Strip(Str(Head(cells)))
         IN  IF val # <<>> THEN <<val>> \o BulletsFromCells(Tail(cells))
             ELSE BulletsFromCells(Tail(cells))

BulletCells ==
    { NaN, Txt(<<" ">>), Txt(<<"a"," ","b","b"," "," ","c">>) }

\* the bullet columns of the configuration: bullets_cols
BulletCols == <<"bullet1", "bullet2">>

TitleChars == {"a", " "}
Titles == UNION { [1..n -> TitleChars] : n \in 0..MaxTitle }

TextInit ==
    /\ tpc = "wrap"
    /\ tcfg \in [W : {10, 12}, rn : {1}, rd : {2}, pad : 0..MaxPad, k : 0..MaxK,
                 gap : {1}, title_fs : {3}, body_fs : {2}]
    /\ \E raw \in Titles : title = Strip(raw)
    /\ words = Split(title)
    /\ cur = <<>>
    /\ lines = <<>>
    /\ \E cells \in [1..Len(BulletCols) -> BulletCells] : bullets = BulletsFromCells(cells)
    /\ bi = 1
    /\ drawn = <<>>
    /\ y = tcfg.pad

TextPanelW == PanelWidth(tcfg.W, tcfg.rn, tcfg.rd)

\* lines 122-130: one iteration of wrap_text's loop
WrapWord ==
    /\ tpc = "wrap"
    /\ words # <<>>
    /\ LET w == Head(words)
           test == Strip(cur \o <<" ">> \o w)
           bw == TextSize(test, tcfg.title_fs)[1]
       IN  \/ /\ bw <= WrapLimit(WrapMaxW(TextPanelW, tcfg.pad), tcfg.pad)
              /\ cur' = test
              /\ lines' = lines
           \/ /\ ~(bw <= WrapLimit(WrapMaxW(TextPanelW, tcfg.pad), tcfg.pad))
              /\ lines' = IF cur # <<>> THEN Append(lines, cur) ELSE lines
              /\ cur' = w
    /\ words' = Tail(words)
    /\ UNCHANGED <<tpc, tcfg, title, bullets, bi, drawn, y>>
    /\ UNCHANGED <<mainVars, layVars, logoVars>>

\* lines 131-133
WrapFlush ==
    /\ tpc = "wrap"
    /\ words = <<>>
    /\ lines' = IF cur # <<>> THEN Append(lines, cur) ELSE lines
    /\ cur' = <<>>
    /\ tpc' = "title"
    /\ UNCHANGED <<tcfg, title, words, bullets, bi, drawn, y>>
    /\ UNCHANGED <<mainVars, layVars, logoVars>>

RECURSIVE TitleAdvance(_, _, _)
TitleAdvance(ls, fs, gap) ==
    IF ls = <<>> THEN 0
    ELSE TextSize(Head(ls), fs)[2] + gap + TitleAdvance(Tail(ls), fs, gap)

\* lines 136-141
DrawTitle ==
    /\ tpc = "title"
    /\ y' = y + TitleAdvance(lines, tcfg.title_fs, tcfg.gap) + tcfg.gap
    /\ tpc' = "bullets"
    /\ UNCHANGED <<tcfg, title, words, cur, lines, bullets, bi, drawn>>
    /\ UNCHANGED <<mainVars, layVars, logoVars>>

\* the arrow glyph
Arrow == <<">">>

\* lines 144-155: one iteration of the bullet loop
DrawBullet ==
    /\ tpc = "bullets"
    /\ bi <= Len(bullets)
    /\ IF bullets[bi] = <<>>
       THEN UNCHANGED <<drawn, y>>
       ELSE LET b == clamp_words(bullets[bi], tcfg.k)
                ah == TextSize(Arrow, tcfg.body_fs)[2]
                th == TextSize(b, tcfg.body_fs)[2]
            IN  /\ drawn' = Append(drawn, [arrow_y |-> y, text |-> b,
                                           advance |-> Max(ah, th) + tcfg.gap])
                /\ y' = y + Max(ah, th) + tcfg.gap
    /\ bi' = bi + 1
    /\ UNCHANGED <<tpc, tcfg, title, words, cur, lines, bullets>>
    /\ UNCHANGED <<mainVars, layVars, logoVars>>

\* line 157
ReturnPanel ==
    /\ tpc = "bullets"
    /\ bi > Len(bullets)
    /\ tpc' = "done"
    /\ UNCHANGED <<tcfg, title, words, cur, lines, bullets, bi, drawn, y>>
    /\ UNCHANGED <<mainVars, layVars, logoVars>>

TextNext ==
    \/ WrapWord
    \/ WrapFlush
    \/ DrawTitle
    \/ DrawBullet
    \/ ReturnPanel

TextPanelInit == MainIdle /\ LayIdle /\ TextInit /\ LogoIdle

SpecText == TextPanelInit /\ [][TextNext]_vars

(***************************************************************************)
(* The logo in build_slide_clip.  paste_logo scales a copy of the logo     *)
(* and pastes it on the snapshot `composed`, which becomes base_clip; the  *)
(* clip returned is the composite of lines 282-290, whose logo layer is    *)
(* made from logo_rgba itself.                                             *)
(***************************************************************************)
\* line 163: the cap W * 0.18 as the fraction LogoCapNum / LogoCapDen
LogoCapNum == 18
LogoCapDen == 100

\* lines 163-166: scale = min(1.0, (W*0.18)/lw); the size after the resize
PasteLogoSize(W, size) ==
    IF W * LogoCapNum >= size[1] * LogoCapDen THEN size
    ELSE <<Trunc(size[1] * W * LogoCapNum, size[1] * LogoCapDen),
           Trunc(size[2] * W * LogoCapNum, size[1] * LogoCapDen)>>

\* lines 168-171
PasteLogoPos(W, lw, margin, position) ==
    <<IF position = "top_right" THEN W - lw - margin ELSE margin, margin>>

\* line 287: ImageClip(np.array(logo_rgba)), the logo as loaded
LogoLayerSize(size) == size

\* line 288: the layer's position function
logo_layer_pos(time, W, size, margin) == <<W - size[1] - margin, margin>>

LogoInit ==
    /\ gpc = "logo"
    /\ gcfg \in [W : {10, 25, 50}, margin : 0..MaxMargin,
                 position : {"top_right", "top_left"}]
    /\ logo_size \in ((1..MaxLogoW) \X (1..MaxLogoH)) \cup {<<0, 0>>}
    /\ pasted = NoPaste
    /\ layer = <<0, 0>>
    /\ lt = 0
    /\ logo_xy = <<0, 0>>

\* lines 250-252 and 159-171: nothing without a logo; resize raises on an
\* empty size
PasteLogo ==
    /\ gpc = "logo"
    /\ \/ /\ logo_size = <<0, 0>>
          /\ pasted' = pasted
          /\ gpc' = "compose"
       \/ /\ logo_size # <<0, 0>>
          /\ LET ns == PasteLogoSize(gcfg.W, logo_size)
                 xy == PasteLogoPos(gcfg.W, ns[1], gcfg.margin, gcfg.position)
             IN  \/ /\ ns[1] > 0 /\ ns[2] > 0
                    /\ pasted' = [w |-> ns[1], h |-> ns[2], x |-> xy[1], y |-> xy[2]]
                    /\ gpc' = "compose"
                 \/ /\ ~(ns[1] > 0 /\ ns[2] > 0)
                    /\ pasted' = pasted
                    /\ gpc' = "raised"
    /\ UNCHANGED <<gcfg, logo_size, layer, lt, logo_xy>>
    /\ UNCHANGED <<mainVars, layVars, textVars>>

\* lines 281-292: the returned composite; a None layer makes it raise
ComposeLayers ==
    /\ gpc = "compose"
    /\ \/ /\ ~CompositeRaises(SlideLayers(IF logo_size = <<0, 0>> THEN NoLogo ELSE "logo"))
          /\ layer' = LogoLayerSize(logo_size)
          /\ gpc' = "built"
       \/ /\ CompositeRaises(SlideLayers(IF logo_size = <<0, 0>> THEN NoLogo ELSE "logo"))
          /\ layer' = layer
          /\ gpc' = "raised"
    /\ UNCHANGED <<gcfg, logo_size, pasted, lt, logo_xy>>
    /\ UNCHANGED <<mainVars, layVars, textVars>>

\* lines 287-289: the compositor asks the logo layer's position for a frame time
LogoFrame ==
    /\ gpc \in {"built", "playing"}
    /\ \E time \in 0..MaxT :
        /\ lt' = time
        /\ logo_xy' = logo_layer_pos(time, gcfg.W, logo_size, gcfg.margin)
    /\ gpc' = "playing"
    /\ UNCHANGED <<gcfg, logo_size, pasted, layer>>
    /\ UNCHANGED <<mainVars, layVars, textVars>>

LogoNext ==
    \/ PasteLogo
    \/ ComposeLayers
    \/ LogoFrame

LogoSlideInit == MainIdle /\ LayIdle /\ TextIdle /\ LogoInit

SpecLogo == LogoSlideInit /\ [][LogoNext]_vars

(***************************************************************************)
(* Properties of a run of main().                                          *)
(***************************************************************************)
Assembled == pc \in {"audio", "export", "done"}
LoopOver  == pc \in {"check", "exited", "audio", "export", "done"}

\* C1: the timeline shows the slides one after another in input order: the
\* k-th slide of the list, and no other, is the one visible throughout the
\* window [(k-1)*per, k*per).
C1_SlidesShownInOrder ==
    Assembled =>
        \A k \in 1..Len(video.clips) :
            \A time \in ((k - 1) * cfg.per)..(k * cfg.per - 1) :
                Shown(video, time) = k

\* Eligibility as the specification words it: not flagged skip, a non-empty
\* image reference, and no keyword contained in the filename when both are
\* compared without regard to case.
EligibleRow(row, keywords) ==
    /\ ~SkipFlagged(row)
    /\ row.image.kind # "nan"
    /\ Strip(row.image.v) # <<>>
    /\ ~\E k \in 1..Len(keywords) :
            Contains(Lower(keywords[k]), Lower(Strip(row.image.v)))

FirstEligible(rs, keywords, cap) ==
    { j \in 1..Len(rs) :
        /\ EligibleRow(rs[j], keywords)
        /\ Cardinality({ m \in 1..(j - 1) : EligibleRow(rs[m], keywords) }) < cap }

\* C2: the rendered slides are exactly the first max_slides eligible rows,
\* in row order.
C2_RenderedAreFirstEligible ==
    LoopOver =>
        /\ { slides[k].row : k \in 1..Len(slides) }
              = FirstEligible(rows, cfg.keywords, cfg.max_slides)
        /\ \A k \in 1..(Len(slides) - 1) : slides[k].row < slides[k + 1].row

\* C3: with no slide left after filtering the run prints the "no slides"
\* message and exits with status 1; the timeline, the audio step and the
\* export are never entered and no file is written; the front end reports
\* the failure.
C3_NoSlidesIsFatal ==
    /\ (pc = "check" /\ slides = <<>>) => (ENABLED NoSlidesExit /\ ~ENABLED Assemble)
    /\ Assembled => slides # <<>>
    /\ pc = "exited" =>
        /\ slides = <<>>
        /\ exitCode = 1
        /\ stdout # <<>> /\ stdout[Len(stdout)] = MsgNoSlides
        /\ video = NoVideo /\ audio = NoAudio /\ music = 0
        /\ ~outFile.written
        /\ ui \in {"rendering", "failed"}

\* a run over a non-empty sheet whose rows are all flagged skip, reported
\* as failed by the front end
C3_AllRowsSkipped ==
    /\ pc = "exited"
    /\ rows # <<>>
    /\ \A j \in 1..Len(rows) : SkipFlagged(rows[j])
    /\ ui = "failed"

\* C4: a supplied track of duration a > 0 is attached with duration exactly
\* v = per * slide_count: for a < v it is repeated L times, L the least
\* count with L * a >= v, and trimmed to v; for a >= v it is only trimmed;
\* without a track the video carries no audio.
C4_AudioMatchesVideo ==
    pc \in {"export", "done"} =>
        LET v == cfg.per * Len(slides)
        IN  /\ music = 0 => audio = NoAudio
            /\ music > 0 =>
                /\ audio.src = music
                /\ audio.duration = v
                /\ audio.total = audio.loops * music
                /\ audio.total >= v
                /\ music < v => /\ (audio.loops - 1) * music < v
                                /\ audio.loops >= 2
                /\ music >= v => audio.loops = 1
            /\ pc = "done" => outFile.audio = audio /\ outFile.duration = v

\* an exported video whose track was shorter than the video, repeated past
\* its end and cut back to it
C4_LoopedThenTrimmed ==
    /\ pc = "done"
    /\ music > 0
    /\ music < video.duration
    /\ video.duration % music # 0
    /\ audio.total > video.duration
    /\ outFile.audio.duration = video.duration

\* C7: no failure to obtain a sub-asset (an image that cannot be opened, no
\* logo) aborts the run: build_slide_clip returns a clip for every row that
\* reaches it.
C7_SubAssetFailureNeverAborts ==
    /\ pc # "crashed"
    /\ \A k \in 1..Len(slides) : slides[k].duration = cfg.per

(***************************************************************************)
(* Properties of build_slide_clip's geometry and motion.                   *)
(***************************************************************************)
Built == lpc \in {"built", "playing"}

\* C5 as stated: the panel width is round(W * r), and the width available
\* to the product image is W - panel_width - 2 * inset.
C5_PanelWidthIsRounded ==
    lpc # "enter" =>
        /\ panel_w = Round(lcfg.W * lcfg.rn, lcfg.rd)
        /\ lpc \in {"built", "playing", "raised"} =>
               fit.avail_w = lcfg.W - panel_w - 2 * lcfg.inset

\* C5 amended: the panel width is W * r truncated to an integer (the
\* largest integer not above W * r), and the width available to the
\* product image is W - panel_width - 2 * inset.
C5_PanelWidthIsTruncated ==
    lpc # "enter" =>
        /\ panel_w * lcfg.rd <= lcfg.W * lcfg.rn
        /\ lcfg.W * lcfg.rn < (panel_w + 1) * lcfg.rd
        /\ lpc \in {"built", "playing", "raised"} =>
               fit.avail_w = lcfg.W - panel_w - 2 * lcfg.inset

\* a frame width whose product with the ratio has a fraction above one half
C5_FractionAboveHalf ==
    /\ Built
    /\ 2 * ((lcfg.W * lcfg.rn) % lcfg.rd) > lcfg.rd
    /\ lcfg.inset > 0
    /\ fit.avail_w = lcfg.W - panel_w - 2 * lcfg.inset

\* C6: entrance then hold.  At t = 0 the panel is at x = -panel_width and
\* the product at x = frame_width, and progress is 0; from t = 0.6 s on
\* progress is 1, the panel is at x = 0 and the product at its resting x;
\* the y coordinates are 0 and the resting y at every t; and of two frames
\* the later one has progress and panel x no smaller and product x no
\* larger.
C6_EntranceThenHold ==
    /\ [](lpc = "playing" =>
            /\ panel_xy[2] = 0
            /\ prod_xy[2] = fit.ry
            /\ t = 0 => /\ ease_out_cubic(t)[1] = 0
                        /\ panel_xy[1] = -panel_w
                        /\ prod_xy[1] = lcfg.W
            /\ t >= EaseD => /\ ease_out_cubic(t)[1] = ease_out_cubic(t)[2]
                             /\ panel_xy[1] = 0
                             /\ prod_xy[1] = fit.rx)
    /\ [][(lpc = "playing" /\ lpc' = "playing" /\ t <= t') =>
            /\ ease_out_cubic(t)[1] * ease_out_cubic(t')[2]
                  <= ease_out_cubic(t')[1] * ease_out_cubic(t)[2]
            /\ panel_xy[1] <= panel_xy'[1]
            /\ prod_xy'[1] <= prod_xy[1]]_vars

\* a frame in the hold, both elements at rest
C6_HoldFrame ==
    /\ lpc = "playing"
    /\ t > EaseD
    /\ panel_w > 0
    /\ fit.rx < lcfg.W
    /\ panel_xy = <<0, 0>>
    /\ prod_xy = <<fit.rx, fit.ry>>

\* C8: at rest the product image lies inside the right-hand area less the
\* insets, and the panel, at x = 0 and panel_width wide, ends where that
\* area begins or before.
C8_NoOverlapAtRest ==
    /\ Built =>
        /\ fit.avail_w > 0 /\ fit.avail_h > 0
        /\ fit.rx >= panel_w + lcfg.inset
        /\ fit.rx + fit.new_w <= lcfg.W - lcfg.inset
        /\ fit.ry >= lcfg.inset
        /\ fit.ry + fit.new_h <= lcfg.H - lcfg.inset
    /\ (lpc = "playing" /\ t >= EaseD) =>
        /\ panel_xy[1] = 0
        /\ panel_xy[1] + panel_w <= prod_xy[1]
        /\ prod_xy[1] + fit.new_w <= lcfg.W - lcfg.inset

\* a fitted image narrower than the available width, with a positive inset
C8_CenteredWithInset ==
    /\ lpc = "playing"
    /\ t >= EaseD
    /\ lcfg.inset > 0
    /\ fit.new_w < fit.avail_w
    /\ fit.new_h = fit.avail_h
    /\ prod_xy[1] > panel_w + lcfg.inset

(***************************************************************************)
(* Properties of render_text_panel.                                        *)
(***************************************************************************)
Wrapped == tpc \in {"title", "bullets", "done"}

RECURSIVE WordsOf(_)
WordsOf(ls) == IF ls = <<>> THEN <<>> ELSE Split(Head(ls)) \o WordsOf(Tail(ls))

\* the lines are the greedy fill of the title's words at width `limit`
GreedyAt(limit) ==
    /\ WordsOf(lines) = Split(title)
    /\ \A n \in 1..Len(lines) :
        /\ lines[n] # <<>>
        /\ lines[n] = Join(Split(lines[n]))
        /\ Len(Split(lines[n])) > 1 => Len(lines[n]) <= limit
    /\ \A n \in 1..(Len(lines) - 1) :
        Len(lines[n]) + 1 + Len(Split(lines[n + 1])[1]) > limit

\* C9: the title is wrapped greedily at the width panel_width - 2 * pad: a
\* word joins the current line iff the extended line is no wider than that,
\* a word wider than the limit stands alone, no line is empty, and the
\* lines' words are the title's words in order.
C9_GreedyWrapWithinPanelPadding ==
    Wrapped => GreedyAt(TextPanelW - 2 * tcfg.pad)

\* the same with the width the code compares against
GreedyWrapAtCodeLimit ==
    Wrapped => GreedyAt(TextPanelW - 4 * tcfg.pad)

\* C10: one bullet line is drawn per bullet whose clamped text is not
\* empty, its text the bullet's first k tokens (at most k, and unchanged by
\* clamping again); a bullet empty after clamping draws nothing.
C10_OneLinePerNonEmptyClampedBullet ==
    tpc = "done" =>
        /\ Len(drawn) = Cardinality({ n \in 1..Len(bullets) :
                                        Take(Split(bullets[n]), tcfg.k) # <<>> })
        /\ \A n \in 1..Len(drawn) :
            /\ drawn[n].text # <<>>
            /\ Len(Split(drawn[n].text)) <= tcfg.k
            /\ clamp_words(drawn[n].text, tcfg.k) = drawn[n].text
            /\ drawn[n].advance = tcfg.body_fs + tcfg.gap

(***************************************************************************)
(* Properties of the logo layer.                                           *)
(***************************************************************************)
\* C11: in every frame of a slide clip with a logo, the logo layer is the
\* logo scaled to at most 18% of the frame width and never enlarged (the
\* size paste_logo gives it), at the configured corner, top-right or else
\* top-left, logo_margin_px from both adjacent edges, wherever t is.
C11_LogoScaledAtConfiguredCorner ==
    gpc = "playing" =>
        /\ layer[1] * LogoCapDen <= gcfg.W * LogoCapNum
        /\ layer[1] <= logo_size[1] /\ layer[2] <= logo_size[2]
        /\ layer = <<pasted.w, pasted.h>>
        /\ logo_xy[2] = gcfg.margin
        /\ gcfg.position = "top_right" => logo_xy[1] + layer[1] = gcfg.W - gcfg.margin
        /\ gcfg.position # "top_right" => logo_xy[1] = gcfg.margin

\* what the frames do show: the logo as loaded, never scaled, always at the
\* top-right corner, logo_margin_px from the top and right edges
LogoLayerAsLoadedTopRight ==
    gpc = "playing" =>
        /\ layer = logo_size
        /\ logo_xy = <<gcfg.W - logo_size[1] - gcfg.margin, gcfg.margin>>

====
